---- MODULE Spec2Model ----
(***************************************************************************)
(* mrjob.tools.emr.terminate_idle_job_flows as a state machine.            *)
(*                                                                         *)
(* One reaper run is: describe all job flows, walk them through the        *)
(* classification chain and the policy filter (one loop iteration per      *)
(* step), log the summary line, then for each candidate attempt the lock   *)
(* and call terminate_jobflow.  The fleet, the set of terminated job       *)
(* flows and the lock store are shared with other reaper runs and with a   *)
(* job submitter.                                                          *)
(*                                                                         *)
(* Times are minutes.  A timestamp attribute is None (attribute not set),  *)
(* EmptyStr (set, but falsy) or a number of minutes >= 0.                  *)
(***************************************************************************)
EXTENDS Integers, Sequences, FiniteSets, TLC

VARIABLES
    fleet,          \* the provider's job flows, a sequence of job flow records
    terminated,     \* ids of the job flows the provider has been told to terminate
    locks,          \* the lock store: the lock keys that exist
    opts,           \* the command line of the reaper runs
    pc,             \* pc[r]: where reaper run r is
    error,          \* error[r]: the exception that ended run r, "" if none
    job_flows,      \* job_flows[r]: the list describe_all_job_flows returned to r
    max_hours_idle, \* max_hours_idle[r]: the local of that name after line 115
    idx,            \* idx[r]: position of the `for jf in job_flows` loop
    nums,           \* nums[r]: the six num_* counters
    debug_log,      \* debug_log[r]: the log.debug line of every idle/pending job flow
    to_terminate,   \* to_terminate[r]: the candidates
    summary,        \* summary[r]: the log.info summary line, label -> number printed
    tidx,           \* tidx[r]: position of the loop of terminate_and_notify
    calls,          \* calls[r]: the lock attempts and terminate calls r made, in order
    printed,        \* printed[r]: the "Terminated job flow" lines r printed
    submitter       \* the job submitter

vars == <<fleet, terminated, locks, opts, pc, error, job_flows, max_hours_idle,
          idx, nums, debug_log, to_terminate, summary, tidx, calls, printed,
          submitter>>

----------------------------------------------------------------------------
(* Bounds *)

\* job flows in the fleet of a single run
MaxFleet == 2
\* overlapping reaper runs
NumReapers == 2
\* steps of a job flow when every combination of its attributes is drawn
MaxSteps == 2
\* the instant `now` of the runs, in minutes
Now == 600

----------------------------------------------------------------------------
(* Values *)

DEFAULT_MAX_HOURS_IDLE == 1

\* Python's None: an attribute that is not set, an option that is not given
None == -1
\* an attribute that is set to the empty string
EmptyStr == -2
\* pool_hash_and_name's name of an unpooled job flow, and --pool-name not given
NoPool == "None"

MAPPER == "-mapper"
DEBUG_JAR == "s3n://us-east-1.elasticmapreduce/libs/state-pusher/0.1/fetch"
HIVE_ARG == "s3n://us-east-1.elasticmapreduce/libs/hive/hive-script"
INPUT_ARG == "-input"

Reapers == 1..NumReapers

MinutesPerHour == 60

\* hasattr(obj, key)
hasattr(v) == v # None
\* the truth value of getattr(obj, key, None)
Truthy(v) == v >= 0

SetMax(S) == CHOOSE m \in S : \A x \in S : x <= m

SeqToSet(s) == {s[i] : i \in DOMAIN s}

----------------------------------------------------------------------------
(* The predicates of the classification chain *)

is_job_flow_done(jf) == hasattr(jf.enddatetime)

DEBUG_JAR_RE_match(arg) == arg = DEBUG_JAR

is_job_flow_streaming(jf) ==
    IF jf.steps = <<>>
    THEN TRUE
    ELSE \E i \in DOMAIN jf.steps :
            \E j \in DOMAIN jf.steps[i].args :
                \/ jf.steps[i].args[j] = MAPPER
                \/ DEBUG_JAR_RE_match(jf.steps[i].args[j])

is_step_running(step) ==
    /\ step.state # "CANCELLED"
    /\ Truthy(step.startdatetime)
    /\ ~Truthy(step.enddatetime)

is_job_flow_running(jf) ==
    \E i \in DOMAIN jf.steps : is_step_running(jf.steps[i])

is_job_flow_bootstrapping(jf) ==
    /\ Truthy(jf.startdatetime)
    /\ ~Truthy(jf.readydatetime)
    /\ ~Truthy(jf.enddatetime)

job_flow_has_pending_steps(jf) ==
    \E i \in DOMAIN jf.steps : jf.steps[i].state = "PENDING"

\* the list `timestamps` of time_last_active
timestamps(jf) ==
    {v \in {jf.creationdatetime, jf.startdatetime, jf.readydatetime} : Truthy(v)}
    \cup UNION {{v \in {jf.steps[i].creationdatetime, jf.steps[i].startdatetime,
                        jf.steps[i].enddatetime} : Truthy(v)} : i \in DOMAIN jf.steps}

\* max(timestamps) raises ValueError on the empty list
time_last_active_raises(jf) == timestamps(jf) = {}

time_last_active(jf) == SetMax(timestamps(jf))

----------------------------------------------------------------------------
(* Collaborators in mrjob.pool and mrjob.emr *)

\* est_time_to_hour(jf, now): the time left until the next whole hour since the
\* job flow started; not defined for a job flow without a start time, where any
\* duration within the hour may come back
UndefinedTimesToHour == {5, 60}

est_time_to_hour(jf, now) ==
    IF Truthy(jf.startdatetime)
    THEN {MinutesPerHour - ((now - jf.startdatetime) % MinutesPerHour)}
    ELSE UndefinedTimesToHour

\* pool_hash_and_name(jf)[1]: the pool name recorded in the bootstrap configuration
pool_hash_and_name(jf) == jf.pool

\* attempt_to_acquire_lock: creates the marker only if it is absent
attempt_to_acquire_lock(store, key) == key \notin store

\* terminate_jobflow of the provider: may succeed (also on a job flow that is
\* already terminated), fail for a reason of the provider's, or report that
\* the job flow is already terminated
terminate_jobflow_outcomes(id, done) ==
    {"", "TerminateError"} \cup (IF id \in done THEN {"AlreadyTerminated"} ELSE {})

----------------------------------------------------------------------------
(* inspect_and_maybe_terminate_job_flows: the parts of the loop body *)

\* max_hours_idle after "old default behavior"
default_max_hours_idle(o) ==
    IF o.max_hours_idle = None /\ o.mins_to_end_of_hour = None
    THEN DEFAULT_MAX_HOURS_IDLE
    ELSE o.max_hours_idle

Branch_NoRunningCheck(jf) ==
    IF is_job_flow_done(jf) THEN "DONE"
    ELSE IF is_job_flow_bootstrapping(jf) THEN "BOOTSTRAPPING"
    ELSE IF ~is_job_flow_streaming(jf) THEN "NON_INSPECTABLE"
    ELSE "IDLE"

\* the if/elif chain: which branch the job flow takes
Branch(jf) ==
    IF is_job_flow_done(jf) THEN "DONE"
    ELSE IF is_job_flow_bootstrapping(jf) THEN "BOOTSTRAPPING"
    ELSE IF ~is_job_flow_streaming(jf) THEN "NON_INSPECTABLE"
    ELSE IF is_job_flow_running(jf) THEN "RUNNING"
    ELSE "IDLE"

meets_criteria_IdleInclusive(o, mhi, pending, time_idle, time_to_end_of_hour, pool) ==
    /\ ~(mhi # None /\ time_idle < mhi * MinutesPerHour)
    /\ ~(o.mins_to_end_of_hour # None
         /\ (pending \/ time_to_end_of_hour >= o.mins_to_end_of_hour))
    /\ ~(o.pooled_only /\ pool = NoPool)
    /\ ~(o.unpooled_only /\ pool # NoPool)
    /\ ~(o.pool_name # NoPool /\ pool # o.pool_name)

\* "filter out job flows that don't meet our criteria": no `continue` is taken
meets_criteria(o, mhi, pending, time_idle, time_to_end_of_hour, pool) ==
    /\ ~(mhi # None /\ time_idle <= mhi * MinutesPerHour)
    /\ ~(o.mins_to_end_of_hour # None
         /\ (pending \/ time_to_end_of_hour >= o.mins_to_end_of_hour))
    /\ ~(o.pooled_only /\ pool = NoPool)
    /\ ~(o.unpooled_only /\ pool # NoPool)
    /\ ~(o.pool_name # NoPool /\ pool # o.pool_name)

ZeroCounts ==
    [bootstrapping |-> 0, done |-> 0, idle |-> 0, non_streaming |-> 0,
     pending |-> 0, running |-> 0]

\* the arguments of the summary line's format string, in the order given
summary_line(n) ==
    [bootstrapping |-> n.running, running |-> n.bootstrapping,
     pending |-> n.pending, idle |-> n.idle,
     non_streaming |-> n.non_streaming, done |-> n.done]

----------------------------------------------------------------------------
(* terminate_and_notify: the parts of the loop body *)

calls_provider_Always(dry_run) == TRUE

\* `if not dry_run:`
calls_provider(dry_run) == ~dry_run

lock_uri_NoPlusOne(jf) == <<jf.jobflowid, Len(jf.steps)>>

lock_uri_IdOnly(jf) == <<jf.jobflowid, 0>>

\* make_lock_uri(s3_scratch_uri, jf.jobflowid, len(jf.steps) + 1)
lock_uri(jf) == <<jf.jobflowid, Len(jf.steps) + 1>>

next_candidate_Retry(k) == k

\* the for loop moves to the next candidate
next_candidate(k) == k + 1

LockCall(key, ok) ==
    [op |-> "lock", id |-> key[1], nsteps |-> key[2], ok |-> ok, err |-> ""]

TerminateCall(id, err) ==
    [op |-> "terminate", id |-> id, nsteps |-> 0, ok |-> (err = ""), err |-> err]

----------------------------------------------------------------------------
(* Job flow snapshots *)

Step(state, created, started, ended, args) ==
    [state |-> state, creationdatetime |-> created, startdatetime |-> started,
     enddatetime |-> ended, args |-> args]

JobFlow(id, created, started, ready, ended, steps, pool) ==
    [jobflowid |-> id, creationdatetime |-> created, startdatetime |-> started,
     readydatetime |-> ready, enddatetime |-> ended, steps |-> steps, pool |-> pool]

\* the instant `age` minutes before now
Ago(age) == Now - age

Kinds == {"done", "done_blank", "bootstrapping", "hive", "running", "idle",
          "idle_pool_a", "pending", "new", "no_timestamps"}

\* the job flow of a kind, under the id the provider gave it
JobFlowOfKind(kind, id) ==
    CASE kind = "done" ->
            JobFlow(id, Ago(300), Ago(295), Ago(290), Ago(100),
                    <<Step("COMPLETED", Ago(280), Ago(270), Ago(110), <<INPUT_ARG, MAPPER>>)>>,
                    NoPool)
      [] kind = "done_blank" ->
            JobFlow(id, Ago(300), Ago(295), None, EmptyStr, <<>>, NoPool)
      [] kind = "bootstrapping" ->
            JobFlow(id, Ago(20), Ago(10), None, None,
                    <<Step("PENDING", Ago(20), None, None, <<INPUT_ARG, MAPPER>>)>>, "a")
      [] kind = "hive" ->
            JobFlow(id, Ago(300), Ago(295), Ago(290), None,
                    <<Step("COMPLETED", Ago(280), Ago(270), Ago(200), <<HIVE_ARG>>)>>,
                    NoPool)
      [] kind = "running" ->
            JobFlow(id, Ago(300), Ago(295), Ago(290), None,
                    <<Step("RUNNING", Ago(280), Ago(270), None, <<INPUT_ARG, MAPPER>>)>>,
                    "a")
      [] kind = "idle" ->
            JobFlow(id, Ago(300), Ago(295), Ago(290), None,
                    <<Step("CANCELLED", Ago(280), Ago(275), None, <<INPUT_ARG, MAPPER>>),
                      Step("COMPLETED", Ago(270), Ago(260), Ago(120), <<DEBUG_JAR>>)>>,
                    NoPool)
      [] kind = "idle_pool_a" ->
            JobFlow(id, Ago(120), Ago(115), Ago(110), None,
                    <<Step("COMPLETED", Ago(100), Ago(90), Ago(60), <<INPUT_ARG, MAPPER>>)>>,
                    "a")
      [] kind = "pending" ->
            JobFlow(id, Ago(300), Ago(295), Ago(290), None,
                    <<Step("PENDING", Ago(90), None, None, <<INPUT_ARG, MAPPER>>)>>, "b")
      [] kind = "new" ->
            JobFlow(id, Ago(120), None, None, None, <<>>, NoPool)
      [] OTHER ->
            JobFlow(id, None, None, None, None, <<>>, NoPool)

\* the fleets of n job flows
FleetsOfSize(n) ==
    {[i \in 1..n |-> JobFlowOfKind(ks[i], i)] : ks \in [1..n -> Kinds]}

Fleets == UNION {FleetsOfSize(n) : n \in 0..MaxFleet}

Options ==
    [dry_run : BOOLEAN, max_hours_idle : {None, 1}, mins_to_end_of_hour : {None, 10},
     pooled_only : BOOLEAN, unpooled_only : BOOLEAN, pool_name : {NoPool, "a"}]

\* the locks earlier runs and submitters may have left on a fleet
PriorLocks(f) == {{}, {lock_uri(f[i]) : i \in DOMAIN f}}

\* the fleets and command lines of the overlapping runs
RaceFleets ==
    {<<JobFlowOfKind("idle", 1), JobFlowOfKind("pending", 2)>>,
     <<JobFlowOfKind("running", 1), JobFlowOfKind("idle", 2)>>,
     <<JobFlowOfKind("idle", 1), JobFlowOfKind("no_timestamps", 2)>>}

RaceOptions ==
    [dry_run : BOOLEAN, max_hours_idle : {None}, mins_to_end_of_hour : {None},
     pooled_only : {FALSE}, unpooled_only : {FALSE}, pool_name : {NoPool}]

\* every combination of set, empty and missing timestamps, with every list of
\* up to MaxSteps steps
StepSpace ==
    [state : {"PENDING", "COMPLETED", "CANCELLED", "None"},
     creationdatetime : {None},
     startdatetime : {None, Ago(270)},
     enddatetime : {None, Ago(110)},
     args : {<<INPUT_ARG, MAPPER>>, <<HIVE_ARG>>, <<DEBUG_JAR>>}]

StepLists == UNION {[1..n -> StepSpace] : n \in 0..MaxSteps}

SnapshotSpace ==
    [jobflowid : {1},
     creationdatetime : {None, Ago(300)},
     startdatetime : {None, EmptyStr, Ago(295)},
     readydatetime : {None, Ago(290)},
     enddatetime : {None, EmptyStr, Ago(100)},
     steps : StepLists,
     pool : {NoPool}]

ClassifyOptions ==
    [dry_run : BOOLEAN, max_hours_idle : {None}, mins_to_end_of_hour : {None},
     pooled_only : {FALSE}, unpooled_only : {FALSE}, pool_name : {NoPool}]

----------------------------------------------------------------------------
(* The initial states *)

InitReapers ==
    /\ terminated = {}
    /\ pc = [r \in Reapers |-> "start"]
    /\ error = [r \in Reapers |-> ""]
    /\ job_flows = [r \in Reapers |-> <<>>]
    /\ max_hours_idle = [r \in Reapers |-> opts.max_hours_idle]
    /\ idx = [r \in Reapers |-> 1]
    /\ nums = [r \in Reapers |-> ZeroCounts]
    /\ debug_log = [r \in Reapers |-> <<>>]
    /\ to_terminate = [r \in Reapers |-> <<>>]
    /\ summary = [r \in Reapers |-> <<>>]
    /\ tidx = [r \in Reapers |-> 1]
    /\ calls = [r \in Reapers |-> <<>>]
    /\ printed = [r \in Reapers |-> <<>>]
    /\ submitter = [pc |-> "idle", jf |-> 0, nsteps |-> 0]

\* one run on any fleet, with any command line
Init ==
    /\ fleet \in Fleets
    /\ locks \in PriorLocks(fleet)
    /\ opts \in Options
    /\ InitReapers

\* one run on one job flow of any shape
InitClassify ==
    /\ fleet \in {<<jf>> : jf \in SnapshotSpace}
    /\ locks = {}
    /\ opts \in ClassifyOptions
    /\ InitReapers

\* overlapping runs and a submitter
InitRace ==
    /\ fleet \in RaceFleets
    /\ locks = {}
    /\ opts \in RaceOptions
    /\ InitReapers

----------------------------------------------------------------------------
(* inspect_and_maybe_terminate_job_flows *)

\* lines 110-134: the default, the connection, the describe call, the counters
Describe(r) ==
    /\ pc[r] = "start"
    /\ max_hours_idle' = [max_hours_idle EXCEPT ![r] = default_max_hours_idle(opts)]
    /\ job_flows' = [job_flows EXCEPT ![r] = fleet]
    /\ nums' = [nums EXCEPT ![r] = ZeroCounts]
    /\ to_terminate' = [to_terminate EXCEPT ![r] = <<>>]
    /\ idx' = [idx EXCEPT ![r] = 1]
    /\ pc' = [pc EXCEPT ![r] = "inspect"]
    /\ UNCHANGED <<fleet, terminated, locks, opts, error, debug_log, summary, tidx,
                   calls, printed, submitter>>

\* lines 136-195: one iteration of `for jf in job_flows`
InspectJobFlow(r) ==
    /\ pc[r] = "inspect"
    /\ idx[r] <= Len(job_flows[r])
    /\ LET jf == job_flows[r][idx[r]]
           branch == Branch(jf)
       IN  IF branch = "DONE" THEN
                /\ nums' = [nums EXCEPT ![r].done = @ + 1]
                /\ idx' = [idx EXCEPT ![r] = @ + 1]
                /\ UNCHANGED <<pc, error, debug_log, to_terminate>>
           ELSE IF branch = "BOOTSTRAPPING" THEN
                /\ nums' = [nums EXCEPT ![r].bootstrapping = @ + 1]
                /\ idx' = [idx EXCEPT ![r] = @ + 1]
                /\ UNCHANGED <<pc, error, debug_log, to_terminate>>
           ELSE IF branch = "NON_INSPECTABLE" THEN
                /\ nums' = [nums EXCEPT ![r].non_streaming = @ + 1]
                /\ idx' = [idx EXCEPT ![r] = @ + 1]
                /\ UNCHANGED <<pc, error, debug_log, to_terminate>>
           ELSE IF branch = "RUNNING" THEN
                /\ nums' = [nums EXCEPT ![r].running = @ + 1]
                /\ idx' = [idx EXCEPT ![r] = @ + 1]
                /\ UNCHANGED <<pc, error, debug_log, to_terminate>>
           ELSE IF time_last_active_raises(jf) THEN
                \* the ValueError of max([]) leaves the function
                /\ pc' = [pc EXCEPT ![r] = "failed"]
                /\ error' = [error EXCEPT ![r] = "ValueError"]
                /\ UNCHANGED <<nums, idx, debug_log, to_terminate>>
           ELSE \E time_to_end_of_hour \in est_time_to_hour(jf, Now) :
                LET time_idle == Now - time_last_active(jf)
                    pool == pool_hash_and_name(jf)
                    pending == job_flow_has_pending_steps(jf)
                IN  /\ nums' = IF pending
                               THEN [nums EXCEPT ![r].pending = @ + 1]
                               ELSE [nums EXCEPT ![r].idle = @ + 1]
                    /\ debug_log' = [debug_log EXCEPT ![r] = Append(@,
                            [id |-> jf.jobflowid, pending |-> pending,
                             time_idle |-> time_idle,
                             time_to_end_of_hour |-> time_to_end_of_hour,
                             pool |-> pool])]
                    /\ to_terminate' =
                            IF meets_criteria(opts, max_hours_idle[r], pending, time_idle,
                                              time_to_end_of_hour, pool)
                            THEN [to_terminate EXCEPT ![r] = Append(@,
                                    [jf |-> jf, pending |-> pending, time_idle |-> time_idle,
                                     time_to_end_of_hour |-> time_to_end_of_hour])]
                            ELSE to_terminate
                    /\ idx' = [idx EXCEPT ![r] = @ + 1]
                    /\ UNCHANGED <<pc, error>>
    /\ UNCHANGED <<fleet, terminated, locks, opts, job_flows, max_hours_idle, summary,
                   tidx, calls, printed, submitter>>

\* lines 197-203 and 300-301: the summary line, then terminate_and_notify is entered
LogSummary(r) ==
    /\ pc[r] = "inspect"
    /\ idx[r] > Len(job_flows[r])
    /\ summary' = [summary EXCEPT ![r] = <<summary_line(nums[r])>>]
    /\ tidx' = [tidx EXCEPT ![r] = 1]
    /\ pc' = [pc EXCEPT ![r] = IF to_terminate[r] = <<>> THEN "done" ELSE "notify"]
    /\ UNCHANGED <<fleet, terminated, locks, opts, error, job_flows, max_hours_idle,
                   idx, nums, debug_log, to_terminate, calls, printed, submitter>>

----------------------------------------------------------------------------
(* terminate_and_notify *)

PrintedLine(c) ==
    [id |-> c.jf.jobflowid, pending |-> c.pending, time_idle |-> c.time_idle,
     time_to_end_of_hour |-> c.time_to_end_of_hour]

\* where the loop is after the candidate at k
AfterCandidate(r, k) ==
    IF next_candidate(k) > Len(to_terminate[r]) THEN "done" ELSE "notify"

\* lines 303-304 and 317-321 under --dry-run: only the line is printed
DryRunNotify(r) ==
    /\ pc[r] = "notify"
    /\ ~calls_provider(opts.dry_run)
    /\ printed' = [printed EXCEPT ![r] = Append(@, PrintedLine(to_terminate[r][tidx[r]]))]
    /\ tidx' = [tidx EXCEPT ![r] = next_candidate(@)]
    /\ pc' = [pc EXCEPT ![r] = AfterCandidate(r, tidx[r])]
    /\ UNCHANGED <<fleet, terminated, locks, opts, error, job_flows, max_hours_idle,
                   idx, nums, debug_log, to_terminate, summary, calls, submitter>>

\* lines 305-315: the lock attempt; its result is dropped
AcquireLock(r) ==
    /\ pc[r] = "notify"
    /\ calls_provider(opts.dry_run)
    /\ LET key == lock_uri(to_terminate[r][tidx[r]].jf)
       IN  /\ calls' = [calls EXCEPT ![r] =
                            Append(@, LockCall(key, attempt_to_acquire_lock(locks, key)))]
           /\ locks' = locks \cup {key}
    /\ pc' = [pc EXCEPT ![r] = "terminate"]
    /\ UNCHANGED <<fleet, terminated, opts, error, job_flows, max_hours_idle, idx, nums,
                   debug_log, to_terminate, summary, tidx, printed, submitter>>

\* lines 316-321: the terminate call, and the line printed when it returns
TerminateJobflow(r) ==
    /\ pc[r] = "terminate"
    /\ LET c == to_terminate[r][tidx[r]]
           id == c.jf.jobflowid
       IN  \E err \in terminate_jobflow_outcomes(id, terminated) :
            /\ calls' = [calls EXCEPT ![r] = Append(@, TerminateCall(id, err))]
            /\ IF err = ""
               THEN /\ terminated' = terminated \cup {id}
                    /\ printed' = [printed EXCEPT ![r] = Append(@, PrintedLine(c))]
                    /\ tidx' = [tidx EXCEPT ![r] = next_candidate(@)]
                    /\ pc' = [pc EXCEPT ![r] = AfterCandidate(r, tidx[r])]
                    /\ UNCHANGED error
               ELSE \* the exception is not caught
                    /\ pc' = [pc EXCEPT ![r] = "failed"]
                    /\ error' = [error EXCEPT ![r] = err]
                    /\ UNCHANGED <<terminated, printed, tidx>>
    /\ UNCHANGED <<fleet, locks, opts, job_flows, max_hours_idle, idx, nums, debug_log,
                   to_terminate, summary, submitter>>

----------------------------------------------------------------------------
(* The job submitter: checks the lock keyed (id, steps + 1) before it adds a step *)

SubmitterDescribe ==
    /\ submitter.pc = "idle"
    /\ \E i \in DOMAIN fleet :
        /\ fleet[i].jobflowid \notin terminated
        /\ Branch(fleet[i]) = "IDLE"
        /\ ~time_last_active_raises(fleet[i])
        /\ submitter' = [pc |-> "lock", jf |-> i, nsteps |-> Len(fleet[i].steps)]
    /\ UNCHANGED <<fleet, terminated, locks, opts, pc, error, job_flows, max_hours_idle,
                   idx, nums, debug_log, to_terminate, summary, tidx, calls, printed>>

SubmitterLock ==
    /\ submitter.pc = "lock"
    /\ LET key == <<fleet[submitter.jf].jobflowid, submitter.nsteps + 1>>
       IN  /\ submitter' = [submitter EXCEPT !.pc =
                    IF attempt_to_acquire_lock(locks, key) THEN "add" ELSE "backed_off"]
           /\ locks' = locks \cup {key}
    /\ UNCHANGED <<fleet, terminated, opts, pc, error, job_flows, max_hours_idle,
                   idx, nums, debug_log, to_terminate, summary, tidx, calls, printed>>

SubmitterAddStep ==
    /\ submitter.pc = "add"
    /\ IF fleet[submitter.jf].jobflowid \in terminated
       THEN /\ submitter' = [submitter EXCEPT !.pc = "rejected"]
            /\ UNCHANGED fleet
       ELSE /\ submitter' = [submitter EXCEPT !.pc = "submitted"]
            /\ fleet' = [fleet EXCEPT ![submitter.jf].steps =
                    Append(@, Step("PENDING", Now, None, None, <<INPUT_ARG, MAPPER>>))]
    /\ UNCHANGED <<terminated, locks, opts, pc, error, job_flows, max_hours_idle,
                   idx, nums, debug_log, to_terminate, summary, tidx, calls, printed>>

----------------------------------------------------------------------------
(* The specifications *)

Next ==
    \/ Describe(1)
    \/ InspectJobFlow(1)
    \/ LogSummary(1)
    \/ DryRunNotify(1)
    \/ AcquireLock(1)
    \/ TerminateJobflow(1)

\* one reaper run
Spec == Init /\ [][Next]_vars

\* one reaper run on one job flow of any shape
SpecClassify == InitClassify /\ [][Next]_vars

NextRace ==
    \/ \E r \in Reapers :
        \/ Describe(r)
        \/ InspectJobFlow(r)
        \/ LogSummary(r)
        \/ DryRunNotify(r)
        \/ AcquireLock(r)
        \/ TerminateJobflow(r)
    \/ SubmitterDescribe
    \/ SubmitterLock
    \/ SubmitterAddStep

\* overlapping reaper runs and a job submitter
SpecRace == InitRace /\ [][NextRace]_vars

----------------------------------------------------------------------------
(* What the properties are stated with *)

IsTerminateCall(c) == c.op = "terminate"

\* the ids run r called terminate_jobflow with, in the order of the calls
TerminateIds(r) ==
    LET t == SelectSeq(calls[r], IsTerminateCall)
    IN  [k \in DOMAIN t |-> t[k].id]

\* the ids of run r's candidates, in the order of to_terminate
CandidateIds(r) == [k \in DOMAIN to_terminate[r] |-> to_terminate[r][k].jf.jobflowid]

IsPrefix(s, t) == Len(s) <= Len(t) /\ \A i \in DOMAIN s : s[i] = t[i]

\* the job flow is in none of DONE, BOOTSTRAPPING, NON_INSPECTABLE, RUNNING
IdleEligible(jf) ==
    /\ ~is_job_flow_done(jf)
    /\ ~is_job_flow_bootstrapping(jf)
    /\ is_job_flow_streaming(jf)
    /\ ~is_job_flow_running(jf)

\* the phase of a snapshot by the priority order of the phases
PhaseOf(jf) ==
    CASE hasattr(jf.enddatetime) -> "done"
      [] ~hasattr(jf.enddatetime) /\ is_job_flow_bootstrapping(jf) -> "bootstrapping"
      [] OTHER ->
            IF jf.steps # <<>> /\ ~is_job_flow_streaming(jf) THEN "non_streaming"
            ELSE IF is_job_flow_running(jf) THEN "running"
            ELSE IF job_flow_has_pending_steps(jf) THEN "pending"
            ELSE "idle"

Labels == {"bootstrapping", "running", "pending", "idle", "non_streaming", "done"}

\* how many of the first n job flows of run r's list are in the phase
InPhase(r, n, label) ==
    Cardinality({i \in 1..n : PhaseOf(job_flows[r][i]) = label})

\* the job flows of run r's list the classification chain has been through
Classified(r) ==
    IF pc[r] = "start" THEN 0
    ELSE IF pc[r] = "failed" /\ error[r] = "ValueError" THEN idx[r]
    ELSE idx[r] - 1

----------------------------------------------------------------------------
(* C1 *)

\* C1: every lock attempt and terminate call of a run, and every entry of
\* to_terminate, is for a job flow of the run's list that is not DONE, not
\* BOOTSTRAPPING, not NON_INSPECTABLE and not RUNNING.
C1_OnlyIdleJobFlowsTerminated ==
    \A r \in Reapers :
        /\ \A k \in DOMAIN to_terminate[r] :
                /\ IdleEligible(to_terminate[r][k].jf)
                /\ to_terminate[r][k].jf \in SeqToSet(job_flows[r])
        /\ \A k \in DOMAIN calls[r] :
                \E i \in DOMAIN job_flows[r] :
                    /\ job_flows[r][i].jobflowid = calls[r][k].id
                    /\ IdleEligible(job_flows[r][i])

\* a run that terminated a job flow of a list that also holds a job flow of
\* another phase
C1_Witness ==
    \E r \in Reapers :
        /\ pc[r] = "done"
        /\ \E k \in DOMAIN calls[r] : calls[r][k].op = "terminate" /\ calls[r][k].ok
        /\ \E i \in DOMAIN job_flows[r] : is_job_flow_running(job_flows[r][i])

----------------------------------------------------------------------------
(* C2 *)

\* C2: under --dry-run a run makes no lock attempt and no terminate call, no
\* step changes the fleet, the terminated job flows or the lock store, and a
\* finished run has printed exactly one line per candidate, in order.
C2_DryRunLeavesFleetAndLocksAlone ==
    /\ [](\A r \in Reapers :
            opts.dry_run =>
                /\ calls[r] = <<>>
                /\ terminated = {}
                /\ IsPrefix([k \in DOMAIN printed[r] |-> printed[r][k].id], CandidateIds(r))
                /\ (pc[r] = "done" => Len(printed[r]) = Len(to_terminate[r])))
    /\ [][opts.dry_run => UNCHANGED <<fleet, terminated, locks>>]_vars

\* a finished dry run with two candidates
C2_Witness ==
    /\ opts.dry_run
    /\ pc[1] = "done"
    /\ Len(to_terminate[1]) = 2
    /\ Len(printed[1]) = 2

----------------------------------------------------------------------------
(* C4 *)

\* C4: every terminate call comes right after the one lock attempt of the run
\* for that job flow, on the key (id, steps in the snapshot + 1); and after
\* every lock attempt, won or lost, the run is at the terminate call for that
\* job flow or has made it.
C4_LockAttemptThenTerminate ==
    \A r \in Reapers :
        \A k \in DOMAIN calls[r] :
            /\ calls[r][k].op = "terminate" =>
                /\ k > 1
                /\ calls[r][k - 1].op = "lock"
                /\ calls[r][k - 1].id = calls[r][k].id
                /\ \E i \in DOMAIN job_flows[r] :
                        /\ job_flows[r][i].jobflowid = calls[r][k].id
                        /\ calls[r][k - 1].nsteps = Len(job_flows[r][i].steps) + 1
                /\ Cardinality({j \in DOMAIN calls[r] :
                        calls[r][j].op = "lock" /\ calls[r][j].id = calls[r][k].id}) = 1
            /\ calls[r][k].op = "lock" =>
                IF k = Len(calls[r])
                THEN /\ pc[r] = "terminate"
                     /\ to_terminate[r][tidx[r]].jf.jobflowid = calls[r][k].id
                ELSE /\ calls[r][k + 1].op = "terminate"
                     /\ calls[r][k + 1].id = calls[r][k].id

\* a terminate call made after a lost lock attempt
C4_Witness ==
    \E r \in Reapers :
        \E k \in DOMAIN calls[r] :
            /\ k > 1
            /\ calls[r][k].op = "terminate"
            /\ calls[r][k - 1].op = "lock"
            /\ ~calls[r][k - 1].ok

----------------------------------------------------------------------------
(* C5 *)

\* C5: the terminate calls of a run follow to_terminate, one per candidate and
\* in its order; a failed terminate call is the last call of the run, which
\* has ended; the job flows of the calls that succeeded are terminated; a run
\* that is not a dry run and finished has called terminate once for every
\* candidate.
C5_OneCallPerCandidateUntilFailure ==
    \A r \in Reapers :
        /\ IsPrefix(TerminateIds(r), CandidateIds(r))
        /\ \A k \in DOMAIN calls[r] :
                /\ (calls[r][k].op = "terminate" /\ ~calls[r][k].ok) =>
                        (k = Len(calls[r]) /\ pc[r] = "failed")
                /\ (calls[r][k].op = "terminate" /\ calls[r][k].ok) =>
                        calls[r][k].id \in terminated
        /\ (pc[r] = "done" /\ ~opts.dry_run) => TerminateIds(r) = CandidateIds(r)

\* a run of two candidates that ended on the failure of the second terminate call
C5_Witness ==
    \E r \in Reapers :
        /\ pc[r] = "failed"
        /\ error[r] = "TerminateError"
        /\ Len(to_terminate[r]) = 2
        /\ Len(TerminateIds(r)) = 2
        /\ to_terminate[r][1].jf.jobflowid \in terminated
        /\ to_terminate[r][2].jf.jobflowid \notin terminated

----------------------------------------------------------------------------
(* C8 *)

\* the criteria as the options state them, on a line of the debug log
PassesEveryCriterion(d) ==
    LET hours == IF opts.max_hours_idle = None /\ opts.mins_to_end_of_hour = None
                 THEN 1
                 ELSE opts.max_hours_idle
    IN  /\ hours = None \/ d.time_idle > hours * 60
        /\ \/ opts.mins_to_end_of_hour = None
           \/ (~d.pending /\ d.time_to_end_of_hour < opts.mins_to_end_of_hour)
        /\ ~opts.pooled_only \/ d.pool # NoPool
        /\ ~opts.unpooled_only \/ d.pool = NoPool
        /\ opts.pool_name = NoPool \/ d.pool = opts.pool_name

\* C8: the candidates are the idle-eligible job flows inspected so far that
\* pass every configured criterion, in the order of the list; the default of
\* one hour is taken only when both thresholds are unset; with
\* mins_to_end_of_hour set no candidate has a pending step; pooled_only with
\* unpooled_only gives no candidate.
C8_CandidatesAreThoseMeetingEveryCriterion ==
    \A r \in Reapers :
        pc[r] # "start" =>
            LET passed == SelectSeq(debug_log[r], PassesEveryCriterion)
                eligible == {i \in 1..(idx[r] - 1) : IdleEligible(job_flows[r][i])}
            IN  /\ CandidateIds(r) = [k \in DOMAIN passed |-> passed[k].id]
                /\ \A k \in DOMAIN to_terminate[r] :
                        /\ to_terminate[r][k].pending = passed[k].pending
                        /\ to_terminate[r][k].time_idle = passed[k].time_idle
                        /\ to_terminate[r][k].time_to_end_of_hour = passed[k].time_to_end_of_hour
                /\ {debug_log[r][k].id : k \in DOMAIN debug_log[r]}
                        = {job_flows[r][i].jobflowid : i \in eligible}
                /\ \A k \in DOMAIN debug_log[r] : k > 1 =>
                        debug_log[r][k - 1].id < debug_log[r][k].id
                /\ max_hours_idle[r] = 1 <=>
                        \/ opts.max_hours_idle = 1
                        \/ (opts.max_hours_idle = None /\ opts.mins_to_end_of_hour = None)
                /\ opts.mins_to_end_of_hour # None =>
                        \A k \in DOMAIN to_terminate[r] : ~to_terminate[r][k].pending
                /\ (opts.pooled_only /\ opts.unpooled_only) => to_terminate[r] = <<>>

\* a finished inspection that kept the second of two idle job flows and, with
\* mins_to_end_of_hour set, dropped the first, which has a pending step
C8_Witness ==
    /\ pc[1] \in {"notify", "done"}
    /\ opts.mins_to_end_of_hour # None
    /\ Len(debug_log[1]) = 2
    /\ debug_log[1][1].pending
    /\ CandidateIds(1) = <<2>>

----------------------------------------------------------------------------
(* C3 *)

\* the job flow holds a step the submitter has just added
HoldsNewStep(id) ==
    /\ submitter.pc = "submitted"
    /\ fleet[submitter.jf].jobflowid = id

\* the lock key the submitter checked
SubmitterKey == <<fleet[submitter.jf].jobflowid, submitter.nsteps + 1>>

----------------------------------------------------------------------------
(* C6 *)

\* C6 as stated: no run ends because the job flow it called terminate for was
\* already terminated.
C6_DoubleTerminationIsBenign ==
    \A r \in Reapers : ~(pc[r] = "failed" /\ error[r] = "AlreadyTerminated")

----------------------------------------------------------------------------
(* C7 *)

\* C7 as stated: each counter holds the number of job flows the chain has been
\* through that are in its phase, the phase being the first that applies of
\* DONE, BOOTSTRAPPING, NON_INSPECTABLE, RUNNING, IDLE_PENDING, IDLE_FREE; so
\* one counter was incremented for each of them.
C7_OnePhaseAndOneCounterPerJobFlow ==
    \A r \in Reapers :
        \A label \in Labels : nums[r][label] = InPhase(r, Classified(r), label)

----------------------------------------------------------------------------
(* C9 *)

\* C9 as stated: an error raised while one job flow is classified does not end
\* the run.
C9_ClassificationErrorsAreLocal ==
    \A r \in Reapers : ~(pc[r] = "failed" /\ error[r] = "ValueError")

----------------------------------------------------------------------------
(* C10 *)

\* C10 as stated: the summary line gives, under each label, the number of job
\* flows of the list in that phase, and the six numbers add up to the length
\* of the list.
C10_SummaryLineCountsEachPhase ==
    \A r \in Reapers :
        summary[r] # <<>> =>
            /\ \A label \in Labels :
                    summary[r][1][label] = InPhase(r, Len(job_flows[r]), label)
            /\ summary[r][1].bootstrapping + summary[r][1].running
                    + summary[r][1].pending + summary[r][1].idle
                    + summary[r][1].non_streaming + summary[r][1].done
                        = Len(job_flows[r])

====
